---------------------------- MODULE Spec2Model ----------------------------
(***************************************************************************)
(* A model of build_search_index.py: the text helpers (text, truncate),    *)
(* the five extractors (parse_qa, parse_arg_cards, parse_essay,            *)
(* parse_sisallys, parse_terms), the page loader (load_soup) and the       *)
(* driver main() with its single write of search-index.json.               *)
(*                                                                         *)
(* A Python str is a sequence of characters, each character a TLA+ string  *)
(* of its own ("a", " ", "U2026" for the ellipsis, "U2014" for the em      *)
(* dash).  A parsed page is a tree of nodes; select / select_one /         *)
(* get_text walk that tree in document order.  None is the empty sequence  *)
(* <<>> and an element that was found is the one-element sequence <<el>>.  *)
(***************************************************************************)
EXTENDS Integers, Sequences, FiniteSets, TLC

VARIABLES
    fs,           \* SITE_DIR: page name -> <<>> (no such file) or <<soup>>
    output,       \* content of search-index.json
    pc,           \* position of the running call
    all_entries,  \* main()'s accumulator
    run,          \* number of invocations of main() started so far
    written,      \* log of OUTPUT.write_text calls: the file content after each
    arg,          \* argument of a direct call of a helper or extractor
    ret           \* what that call returned

vars == <<fs, output, pc, all_entries, run, written, arg, ret>>

-----------------------------------------------------------------------------
(* Bounds of the model *)

MaxRuns == 2
MaxCards == 2
MaxExtra == 2

(* truncate's default max_len *)
DefaultMaxLen == 300

-----------------------------------------------------------------------------
(* Characters and strings *)

SPACE == " "
ELLIPSIS == "U2026"
EMDASH == "U2014"

\* the characters Python's \s and str.strip() treat as whitespace
Whitespace == {" ", "NL", "TAB", "CR"}

IsSpace(c) == c \in Whitespace

Rep(c, n) == [i \in 1..n |-> c]

Indices(s) == [i \in 1..Len(s) |-> i]

RECURSIVE Concat(_)
Concat(ss) == IF ss = <<>> THEN <<>> ELSE Head(ss) \o Concat(Tail(ss))

\* sep.join(parts)
RECURSIVE Join(_, _)
Join(parts, sep) ==
    IF parts = <<>> THEN <<>>
    ELSE IF Len(parts) = 1 THEN parts[1]
    ELSE parts[1] \o sep \o Join(Tail(parts), sep)

\* s.startswith(p)
StartsWith(s, p) == Len(p) <= Len(s) /\ SubSeq(s, 1, Len(p)) = p

\* s.strip()
Strip(s) ==
    LET solid == SelectSeq(Indices(s), LAMBDA i : ~IsSpace(s[i]))
    IN  IF solid = <<>> THEN <<>>
        ELSE SubSeq(s, solid[1], solid[Len(solid)])

\* re.sub(r"\s+", " ", s): every maximal run of whitespace becomes one space
CollapseWs(s) ==
    LET kept == SelectSeq(Indices(s),
                          LAMBDA i : ~IsSpace(s[i]) \/ i = 1 \/ ~IsSpace(s[i - 1]))
    IN  [k \in 1..Len(kept) |-> IF IsSpace(s[kept[k]]) THEN SPACE ELSE s[kept[k]]]

\* s.replace(old, new), left to right, non-overlapping
RECURSIVE Replace(_, _, _)
Replace(s, old, new) ==
    IF old = <<>> THEN
        (IF s = <<>> THEN new ELSE new \o <<Head(s)>> \o Replace(Tail(s), old, new))
    ELSE IF Len(s) < Len(old) THEN s
    ELSE IF StartsWith(s, old)
         THEN new \o Replace(SubSeq(s, Len(old) + 1, Len(s)), old, new)
    ELSE <<Head(s)>> \o Replace(Tail(s), old, new)

UpperChars == <<"A", "B", "C", "D", "E", "F", "G", "H", "I", "J", "K", "L", "M",
                "N", "O", "P", "Q", "R", "S", "T", "U", "V", "W", "X", "Y", "Z">>
LowerChars == <<"a", "b", "c", "d", "e", "f", "g", "h", "i", "j", "k", "l", "m",
                "n", "o", "p", "q", "r", "s", "t", "u", "v", "w", "x", "y", "z">>

LowerChar(c) ==
    IF \E k \in 1..Len(UpperChars) : UpperChars[k] = c
    THEN LowerChars[CHOOSE k \in 1..Len(UpperChars) : UpperChars[k] = c]
    ELSE c

\* s.lower()
Lower(s) == [i \in 1..Len(s) |-> LowerChar(s[i])]

\* s.replace(' ', '-')
SpacesToHyphens(s) == [i \in 1..Len(s) |-> IF s[i] = SPACE THEN "-" ELSE s[i]]

DigitChars == <<"0", "1", "2", "3", "4", "5", "6", "7", "8", "9">>

\* str(i) of a natural number
RECURSIVE Str(_)
Str(i) ==
    IF i < 10 THEN <<DigitChars[i + 1]>>
    ELSE Str(i \div 10) \o <<DigitChars[(i % 10) + 1]>>

\* a or b on strings: the empty string is falsy
Or(a, b) == IF a # <<>> THEN a ELSE b

-----------------------------------------------------------------------------
(* The parsed document *)

TextNode(s) ==
    [tag |-> "#text", class |-> {}, id |-> <<>>, href |-> <<>>, kids |-> <<>>,
     text |-> s]

\* an element; id and href are <<>> (attribute absent) or <<value>>
El(tag, class, id, href, kids) ==
    [tag |-> tag, class |-> class, id |-> id, href |-> href, kids |-> kids,
     text |-> <<>>]

Soup(kids) == El("[document]", {}, <<>>, <<>>, kids)

IsText(n) == n.tag = "#text"

\* the descendants of n in document order (n itself excluded)
RECURSIVE Descendants(_)
Descendants(n) ==
    LET RECURSIVE Walk(_)
        Walk(ks) == IF ks = <<>> THEN <<>>
                    ELSE <<Head(ks)>> \o Descendants(Head(ks)) \o Walk(Tail(ks))
    IN  Walk(n.kids)

\* el.get_text(separator=sep): every string under el, joined by sep
GetText(el, sep) ==
    LET strings == SelectSeq(Descendants(el), IsText)
    IN  Join([i \in 1..Len(strings) |-> strings[i].text], sep)

\* el.select(".cls")
SelectClass(el, cls) ==
    SelectSeq(Descendants(el), LAMBDA n : ~IsText(n) /\ cls \in n.class)

\* el.select("tag")
SelectTag(el, tag) == SelectSeq(Descendants(el), LAMBDA n : n.tag = tag)

\* el.select("a[id]")
SelectAWithId(el) ==
    SelectSeq(Descendants(el), LAMBDA n : n.tag = "a" /\ n.id # <<>>)

\* el.select("a[href]")
SelectAWithHref(el) ==
    SelectSeq(Descendants(el), LAMBDA n : n.tag = "a" /\ n.href # <<>>)

\* el.select(".cls tag"): the tag elements below an element of class cls
RECURSIVE SelectTagUnderClass(_, _, _, _)
SelectTagUnderClass(el, cls, tag, inside) ==
    LET RECURSIVE Walk(_)
        Walk(ks) ==
            IF ks = <<>> THEN <<>>
            ELSE LET k == Head(ks)
                 IN  (IF inside /\ k.tag = tag THEN <<k>> ELSE <<>>)
                     \o SelectTagUnderClass(k, cls, tag,
                                            inside \/ (~IsText(k) /\ cls \in k.class))
                     \o Walk(Tail(ks))
    IN  Walk(el.kids)

\* select_one: the first match, or None
First(matches) == IF matches = <<>> THEN <<>> ELSE <<matches[1]>>

\* el.get(name, "") for the id attribute
GetId(el) == IF el.id = <<>> THEN <<>> ELSE el.id[1]

-----------------------------------------------------------------------------
(* text and truncate *)

\* text(el), el being None (<<>>) or <<element>>
Text(el) ==
    IF el = <<>> THEN <<>>
    ELSE Strip(CollapseWs(GetText(el[1], <<SPACE>>)))

\* a variant of RSplitHead: s.split(" ", 1)[0], the cut at the first space
RSplitHead_FirstSpace(s) ==
    LET spaces == SelectSeq(Indices(s), LAMBDA i : s[i] = SPACE)
    IN  IF spaces = <<>> THEN s
        ELSE SubSeq(s, 1, spaces[1] - 1)

\* s.rsplit(" ", 1)[0]
RSplitHead(s) ==
    LET spaces == SelectSeq(Indices(s), LAMBDA i : s[i] = SPACE)
    IN  IF spaces = <<>> THEN s
        ELSE SubSeq(s, 1, spaces[Len(spaces)] - 1)

\* a variant of Truncate: the cut one character late, s[:max_len + 1]
Truncate_CutLate(s, max_len) ==
    IF Len(s) <= max_len THEN s
    ELSE RSplitHead(SubSeq(s, 1, max_len + 1)) \o <<ELLIPSIS>>

\* truncate(s, max_len)
Truncate(s, max_len) ==
    IF Len(s) <= max_len THEN s
    ELSE RSplitHead(SubSeq(s, 1, max_len)) \o <<ELLIPSIS>>

-----------------------------------------------------------------------------
(* String literals of the program *)

S_qa == <<"q", "a">>
S_arg == <<"a", "r", "g">>
S_kieli == <<"k", "i", "e", "l", "i">>
S_kannustin == <<"k", "a", "n", "n", "u", "s", "t", "i", "n">>
S_toc == <<"t", "o", "c">>
S_termi == <<"t", "e", "r", "m", "i">>
S_term_ == <<"t", "e", "r", "m", "-">>
S_argumentit == <<"a", "r", "g", "u", "m", "e", "n", "t", "i", "t">>
S_kielen_valta == <<"k", "i", "e", "l", "e", "n", "-", "v", "a", "l", "t", "a">>
S_kannustinketju ==
    <<"k", "a", "n", "n", "u", "s", "t", "i", "n", "k", "e", "t", "j", "u">>
S_sisallys == <<"s", "i", "s", "a", "l", "l", "y", "s">>
S_sanakirja_url == <<"/", "s", "a", "n", "a", "k", "i", "r", "j", "a">>
S_http == <<"h", "t", "t", "p">>
S_full == <<"-", "f", "u", "l", "l">>
S_Osio == <<"O", "s", "i", "o", " ">>
L_QA == <<"Q", "&", "A">>
L_Systeemivirhe ==
    <<"S", "y", "s", "t", "e", "e", "m", "i", "v", "i", "r", "h", "e">>
L_KielenValta == <<"K", "i", "e", "l", "e", "n", " ", "v", "a", "l", "t", "a">>
L_Kannustinketju ==
    <<"K", "a", "n", "n", "u", "s", "t", "i", "n", "k", "e", "t", "j", "u">>
L_Sisallys == <<"S", "i", "s", "U00E4", "l", "l", "y", "s">>
L_Kasite == <<"K", "U00E4", "s", "i", "t", "e">>

-----------------------------------------------------------------------------
(* The extractors *)

Entry(id, title, content, url, type, type_label) ==
    [id |-> id, title |-> title, content |-> content,
     excerpt |-> Truncate(content, DefaultMaxLen),
     url |-> url, type |-> type, type_label |-> type_label]

\* the "# permalink" removal of parse_qa
StripPermalink(question) ==
    IF StartsWith(question, <<"#">>) THEN Strip(Tail(question)) ELSE question

QaEntry(card) ==
    LET card_id == GetId(card)
        question == StripPermalink(Text(First(SelectClass(card, "qa-question-text"))))
        content == Text(First(SelectClass(card, "qa-content")))
    IN  Entry(S_qa \o <<"-">> \o card_id, question, content,
              S_qa \o <<"#">> \o card_id, S_qa, L_QA)

ParseQa(soup) ==
    LET cards == SelectClass(soup, "qa-card")
    IN  [i \in 1..Len(cards) |-> QaEntry(cards[i])]

ArgTitle(num, claim, label) ==
    LET title == Strip(num \o <<SPACE>> \o claim)
    IN  IF label # <<>> THEN title \o <<SPACE, "(">> \o label \o <<")">> ELSE title

ArgEntry(card, page_url, type_id, type_label) ==
    LET card_id == GetId(card)
        num == Text(First(SelectClass(card, "arg-num")))
        claim == Text(First(SelectClass(card, "arg-claim")))
        label == Text(First(SelectClass(card, "arg-label")))
        body == Or(Text(First(SelectClass(card, "arg-vastaus"))),
                   Text(First(SelectClass(card, "arg-body"))))
    IN  Entry(type_id \o <<"-">> \o card_id, ArgTitle(num, claim, label), body,
              page_url \o <<"#">> \o card_id, type_id, type_label)

ParseArgCards(soup, page_url, type_id, type_label) ==
    LET cards == SelectClass(soup, "arg-card")
    IN  [i \in 1..Len(cards) |-> ArgEntry(cards[i], page_url, type_id, type_label)]

\* the anchor of a section: an a[id] inside the heading, else the heading's id
EssayAnchor(h2, h3) ==
    LET heading_el == IF h2 # <<>> THEN h2 ELSE h3
    IN  IF heading_el = <<>> THEN <<>>
        ELSE LET a == First(SelectAWithId(heading_el[1]))
             IN  IF a # <<>> THEN <<"#">> \o a[1].id[1]
                 ELSE IF GetId(heading_el[1]) # <<>>
                      THEN <<"#">> \o GetId(heading_el[1])
                 ELSE <<>>

\* the title of section i (from 0)
EssayHeading(h2, h3, i) == Or(Text(h2), Or(Text(h3), S_Osio \o Str(i + 1)))

\* a variant of EssaySectionId: sections numbered from 1
EssaySectionId_FromOne(type_id, i) == type_id \o <<"-", "s">> \o Str(i + 1)

\* the id of section i (from 0)
EssaySectionId(type_id, i) == type_id \o <<"-", "s">> \o Str(i)

EssaySectionEntry(section, i, page_url, type_id, type_label) ==
    LET h2 == First(SelectTag(section, "h2"))
        h3 == First(SelectTag(section, "h3"))
    IN  Entry(EssaySectionId(type_id, i), EssayHeading(h2, h3, i),
              Text(<<section>>), page_url \o EssayAnchor(h2, h3), type_id, type_label)

EssayFullEntry(soup, essay_body, page_url, type_id, type_label) ==
    LET h1 == First(SelectTagUnderClass(soup, "essay-header", "h1", FALSE))
    IN  Entry(type_id \o S_full, IF h1 # <<>> THEN Text(h1) ELSE type_label,
              Text(<<essay_body>>), page_url, type_id, type_label)

ParseEssay(soup, page_url, type_id, type_label) ==
    LET essay_body == First(SelectClass(soup, "essay-body"))
    IN  IF essay_body = <<>> THEN <<>>
        ELSE LET sections == SelectTag(essay_body[1], "section")
             IN  IF sections = <<>>
                 THEN <<EssayFullEntry(soup, essay_body[1], page_url, type_id,
                                       type_label)>>
                 ELSE [k \in 1..Len(sections) |->
                          EssaySectionEntry(sections[k], k - 1, page_url, type_id,
                                            type_label)]

\* url = link["href"] if link else "sisallys"
TocLinkUrl(title_el) ==
    LET link == First(SelectAWithHref(title_el))
    IN  IF link # <<>> THEN link[1].href[1] ELSE S_sisallys

\* the record's url: url if url.startswith("http") else "sisallys"
TocUrlField(url) == IF StartsWith(url, S_http) THEN url ELSE S_sisallys

\* a variant of TocId: the id built from the record's url field
TocId_FromUrlField(url) == S_toc \o <<"-">> \o TocUrlField(url)

\* the record's id: f"toc-{url}"
TocId(url) == S_toc \o <<"-">> \o url

\* content = " - ".join(section_items) if section_items else title
TocContent(chapter, title) ==
    LET sections_el == First(SelectClass(chapter, "toc-sections"))
        lis == IF sections_el # <<>> THEN SelectTag(sections_el[1], "li") ELSE <<>>
        section_items == [i \in 1..Len(lis) |-> Text(<<lis[i]>>)]
    IN  IF section_items # <<>>
        THEN Join(section_items, <<SPACE, EMDASH, SPACE>>)
        ELSE title

TocEntry(chapter) ==
    LET title_el == First(SelectClass(chapter, "toc-chapter-title"))[1]
        title == Text(<<title_el>>)
        badge == First(SelectClass(title_el, "toc-badge"))
        badge_text == IF badge # <<>> THEN Text(badge) ELSE <<>>
        url == TocLinkUrl(title_el)
    IN  Entry(TocId(url), Strip(Replace(title, badge_text, <<>>)),
              TocContent(chapter, title), TocUrlField(url), S_toc, L_Sisallys)

ParseSisallys(soup) ==
    LET chapters == SelectSeq(SelectClass(soup, "toc-chapter"),
                       LAMBDA c : First(SelectClass(c, "toc-chapter-title")) # <<>>)
    IN  [i \in 1..Len(chapters) |-> TocEntry(chapters[i])]

\* f"term-{title.lower().replace(' ', '-')}"
TermId(title) == S_term_ \o SpacesToHyphens(Lower(title))

TermEntry(term) ==
    LET title == Text(First(SelectTag(term, "h3")))
        p == First(SelectTag(term, "p"))
    IN  Entry(TermId(title), title, IF p # <<>> THEN Text(p) ELSE <<>>,
              S_sanakirja_url, S_termi, L_Kasite)

ParseTerms(soup) ==
    LET terms == SelectSeq(SelectClass(soup, "term"),
                           LAMBDA t : First(SelectTag(t, "h3")) # <<>>)
    IN  [i \in 1..Len(terms) |-> TermEntry(terms[i])]

-----------------------------------------------------------------------------
(* The loader, the aggregation and the serializer *)

\* a variant of LoadSoup: no path.exists() test, reading a missing file raises
LoadSoup_NoExistsTest(dir, filename) ==
    IF dir[filename] = <<>>
    THEN [raised |-> TRUE, value |-> <<>>]
    ELSE [raised |-> FALSE, value |-> dir[filename]]

\* load_soup(filename): None when the file does not exist, else the parsed page.
\* The outcome says whether the call raised.
LoadSoup(dir, filename) ==
    IF dir[filename] = <<>>
    THEN [raised |-> FALSE, value |-> <<>>]
    ELSE [raised |-> FALSE, value |-> dir[filename]]

\* a variant of Extend: the new entries put in front
Extend_InFront(all, entries) == entries \o all

\* all_entries.extend(entries)
Extend(all, entries) == all \o entries

\* json.dumps(all_entries, sort_keys=True): each record as its key/value
\* pairs in the alphabetical order of the keys
DumpEntry(e) ==
    << <<"content", e.content>>, <<"excerpt", e.excerpt>>, <<"id", e.id>>,
       <<"title", e.title>>, <<"type", e.type>>, <<"type_label", e.type_label>>,
       <<"url", e.url>> >>

Dumps(entries) == [i \in 1..Len(entries) |-> DumpEntry(entries[i])]

\* a variant of WriteText: the file opened for appending
WriteText_Append(old, data) == old \o data

\* OUTPUT.write_text(data): the file holds data and nothing else
WriteText(old, data) == data

-----------------------------------------------------------------------------
(* Input pages.  Every text is wrapped in stray whitespace, as indented HTML *)
(* source is, and longer texts are split over several strings.              *)

\* more than max_len characters without a space
LongSolid == Rep("x", DefaultMaxLen + 1)

\* more than max_len characters, a space after every seventh
LongWords == [i \in 1..(DefaultMaxLen + 40) |-> IF i % 8 = 0 THEN SPACE ELSE "w"]

Noisy(s) == TextNode(<<"NL", SPACE, SPACE>> \o s \o <<"TAB", "NL">>)

Div(cls, id, kids) == El("div", {cls}, id, <<>>, kids)
Span(cls, s) == El("span", {cls}, <<>>, <<>>, <<Noisy(s)>>)
Plain(tag, s) == El(tag, {}, <<>>, <<>>, <<Noisy(s)>>)

T_q1 == <<"q", "1">>
T_q2 == <<"q", "2">>
T_a1 == <<"a", "1">>
T_a2 == <<"a", "2">>
T_Why == <<"W", "h", "y", "?">>
T_Because == <<"B", "e", "c", "a", "u", "s", "e", " ", "X", ".">>
T_Claim == <<"C", "l", "a", "i", "m">>
T_1dot == <<"1", ".">>
T_lbl == <<"l", "b", "l">>
T_Intro == <<"I", "n", "t", "r", "o">>
T_Sub == <<"S", "u", "b">>
T_intro == <<"i", "n", "t", "r", "o">>
T_sub == <<"s", "u", "b">>
T_Luku1 == <<"L", "u", "k", "u", " ", "1">>
T_UUSI == <<"U", "U", "S", "I">>
T_luku1 == <<"l", "u", "k", "u", "1">>
T_Ulko == <<"U", "l", "k", "o">>
T_httpx == <<"h", "t", "t", "p", ":", "/", "/", "x">>
T_Osa == <<"O", "s", "a">>
T_Ab == <<"A", " ", "b">>
T_a_b == <<"a", "-", "b">>
T_Mekanismi == <<"M", "e", "k", "a", "n", "i", "s", "m", "i">>

QaCards ==
    << Div("qa-card", <<T_q1>>,
          <<El("h3", {"qa-question-text"}, <<>>, <<>>,
               <<El("a", {}, <<>>, <<<<"#", "q", "1">>>>, <<TextNode(<<"#">>)>>),
                 Noisy(T_Why)>>),
            Div("qa-content", <<>>, <<Plain("p", T_Because)>>)>>),
      Div("qa-card", <<T_q2>>,
          <<Span("qa-question-text", T_Why \o <<"NL", "NL">> \o T_Claim),
            Div("qa-content", <<>>, <<Plain("p", LongSolid), Plain("p", T_Because)>>)>>),
      Div("qa-card", <<>>, <<>>),
      Div("qa-card", <<T_q1>>,
          <<Span("qa-question-text", <<"#">>),
            Div("qa-content", <<>>, <<Plain("p", LongWords)>>)>>) >>

QaCardPool == {QaCards[i] : i \in DOMAIN QaCards}

ArgCards ==
    << Div("arg-card", <<T_a1>>,
          <<Span("arg-num", T_1dot), Span("arg-claim", T_Claim),
            Span("arg-label", T_lbl), Div("arg-vastaus", <<>>, <<Plain("p", T_Because)>>),
            Div("arg-body", <<>>, <<Plain("p", T_Why)>>)>>),
      Div("arg-card", <<T_a2>>,
          <<Span("arg-claim", T_Claim), Div("arg-body", <<>>, <<Plain("p", LongWords)>>)>>),
      Div("arg-card", <<T_a1>>,
          <<Span("arg-num", T_1dot), Div("arg-vastaus", <<>>, <<Noisy(<<>>)>>),
            Div("arg-body", <<>>, <<Plain("p", LongSolid)>>)>>),
      Div("arg-card", <<>>, <<>>) >>

ArgCardPool == {ArgCards[i] : i \in DOMAIN ArgCards}

Terms ==
    << Div("term", <<>>, <<Plain("h3", T_Mekanismi), Plain("p", T_Because)>>),
      Div("term", <<>>, <<Plain("h3", T_Ab)>>),
      Div("term", <<>>, <<Plain("h3", T_a_b), Plain("p", LongWords)>>),
      Div("term", <<>>, <<Plain("p", T_Why)>>) >>

TermPool == {Terms[i] : i \in DOMAIN Terms}

\* the sequences of at most n elements of pool
SeqsUpTo(pool, n) == UNION {[1..k -> pool] : k \in 0..n}

(* An essay page is described by what it holds: whether it has the essay    *)
(* body, the text of its h1 (<<>> if it has none), and for each section the *)
(* text of its h2 and h3 (<<>> if it has none), the id of an anchor inside  *)
(* the heading and the heading's own id.                                     *)
Sections ==
    << [h2 |-> <<T_Intro>>, h3 |-> <<>>, anchor |-> <<T_intro>>, hid |-> <<>>],
      [h2 |-> <<>>, h3 |-> <<T_Sub>>, anchor |-> <<>>, hid |-> <<T_sub>>],
      [h2 |-> <<>>, h3 |-> <<>>, anchor |-> <<>>, hid |-> <<>>],
      [h2 |-> << <<>> >>, h3 |-> <<T_Sub>>, anchor |-> <<>>, hid |-> <<>>] >>

SectionPool == {Sections[i] : i \in DOMAIN Sections}

EssayDescs ==
    [body : BOOLEAN, h1 : {<<>>, <<T_Intro>>, << <<>> >>},
     sections : SeqsUpTo(SectionPool, MaxCards)]

HeadingEl(tag, d, s) ==
    El(tag, {}, d.hid, <<>>,
       (IF d.anchor # <<>> THEN <<El("a", {}, d.anchor, <<>>, <<>>)>> ELSE <<>>)
       \o <<Noisy(s)>>)

SectionEl(d) ==
    El("section", {}, <<>>, <<>>,
       (IF d.h2 # <<>> THEN <<HeadingEl("h2", d, d.h2[1])>> ELSE <<>>)
       \o (IF d.h3 # <<>> THEN <<HeadingEl("h3", d, d.h3[1])>> ELSE <<>>)
       \o <<Plain("p", LongWords)>>)

EssaySoup(d) ==
    Soup((IF d.h1 # <<>>
          THEN <<Div("essay-header", <<>>, <<Plain("h1", d.h1[1])>>)>> ELSE <<>>)
         \o (IF d.body
             THEN <<Div("essay-body", <<>>,
                        IF d.sections = <<>> THEN <<Plain("p", T_Because)>>
                        ELSE [k \in 1..Len(d.sections) |-> SectionEl(d.sections[k])])>>
             ELSE <<Plain("p", T_Why)>>))

(* A table of contents is described by its chapters: whether the chapter    *)
(* has a title element, the title's text and badge (<<>> if none), the link *)
(* target (<<>> if no link), whether it has a section list, and the items.  *)
Chapters ==
    << [titled |-> TRUE, title |-> T_Luku1, badge |-> <<T_UUSI>>, href |-> <<T_luku1>>,
       listed |-> TRUE, items |-> <<T_Osa, T_Sub>>],
      [titled |-> TRUE, title |-> T_Ulko, badge |-> <<>>, href |-> <<T_httpx>>,
       listed |-> FALSE, items |-> <<>>],
      [titled |-> FALSE, title |-> <<>>, badge |-> <<>>, href |-> <<>>,
       listed |-> TRUE, items |-> <<T_Osa>>],
      [titled |-> TRUE, title |-> T_Intro, badge |-> <<>>, href |-> <<>>,
       listed |-> TRUE, items |-> <<T_Osa, <<>>, T_Sub>>],
      [titled |-> TRUE, title |-> T_Sub, badge |-> <<>>, href |-> <<>>,
       listed |-> TRUE, items |-> <<>>] >>

ChapterPool == {Chapters[i] : i \in DOMAIN Chapters}

TocDescs == SeqsUpTo(ChapterPool, MaxCards)

ChapterEl(d) ==
    Div("toc-chapter", <<>>,
        (IF d.titled
         THEN <<Div("toc-chapter-title", <<>>,
                    <<El("a", {}, <<>>, d.href, <<Noisy(d.title)>>)>>
                    \o (IF d.badge # <<>> THEN <<Span("toc-badge", d.badge[1])>>
                        ELSE <<>>))>>
         ELSE <<>>)
        \o (IF d.listed
            THEN <<El("ul", {"toc-sections"}, <<>>, <<>>,
                      [k \in 1..Len(d.items) |-> Plain("li", d.items[k])])>>
            ELSE <<>>))

TocSoup(ds) == Soup([k \in 1..Len(ds) |-> ChapterEl(ds[k])])

\* the pages a direct call of an extractor is given
QaPages == {Soup(cards) : cards \in SeqsUpTo(QaCardPool, MaxCards)}
ArgPages == {Soup(cards) : cards \in SeqsUpTo(ArgCardPool, MaxCards)}
TermPages == {Soup(terms) : terms \in SeqsUpTo(TermPool, MaxCards)}


\* the strings a direct call of truncate is given: up to three words, the
\* lengths around max_len
TruncLens == {0, 1} \cup ((DefaultMaxLen - MaxExtra)..(DefaultMaxLen + MaxExtra))

TruncInputs ==
    { Rep("a", n1) \o sp1 \o Rep("b", n2) \o sp2 \o Rep("c", n3) :
        n1 \in TruncLens, n2 \in TruncLens, n3 \in {0, 1, DefaultMaxLen},
        sp1 \in {<<>>, <<SPACE>>}, sp2 \in {<<>>, <<SPACE>>} }

-----------------------------------------------------------------------------
(* The site directory and the output file before the first run *)

Files == {"qa.html", "argumentit.html", "kielen-valta.html", "kannustinketju.html",
          "sanakirja.html"}

FileSystems ==
    { [f \in Files |->
         CASE f = "qa.html" -> qa
           [] f = "argumentit.html" -> ar
           [] f = "kielen-valta.html" -> ki
           [] f = "kannustinketju.html" -> ka
           [] OTHER -> sa] :
      qa \in {<<>>, <<Soup(<<QaCards[1], QaCards[2]>>)>>, <<Soup(<<QaCards[4]>>)>>},
      ar \in {<<>>, <<Soup(<<ArgCards[1], ArgCards[2]>>)>>, <<Soup(<<ArgCards[3]>>)>>},
      ki \in {<<>>, <<Soup(<<ArgCards[2], ArgCards[1]>>)>>, <<Soup(<<ArgCards[4]>>)>>},
      ka \in {<<>>,
              <<EssaySoup([body |-> TRUE, h1 |-> <<T_Intro>>, sections |-> <<>>])>>,
              <<EssaySoup([body |-> TRUE, h1 |-> <<>>,
                           sections |-> <<Sections[1], Sections[3]>>])>>},
      sa \in {<<>>, <<Soup(<<Terms[1], Terms[4], Terms[2]>>)>>,
              <<Soup(<<Terms[2], Terms[3]>>)>>} }

\* no file yet, or the index of an earlier state of the site
PriorOutputs ==
    { <<>>,
      Dumps(<<Entry(S_qa \o <<"-">> \o T_q2, T_Why, T_Because, S_qa \o <<"#">> \o T_q2,
                    S_qa, L_QA)>>) }

-----------------------------------------------------------------------------
(* main() *)

Init ==
    /\ fs \in FileSystems
    /\ output \in PriorOutputs
    /\ pc = "idle"
    /\ all_entries = <<>>
    /\ run = 0
    /\ written = <<>>
    /\ arg = <<>>
    /\ ret = <<>>

\* main() is entered: all_entries = []
Main_Begin ==
    /\ pc \in {"idle", "done"}
    /\ run < MaxRuns
    /\ run' = run + 1
    /\ all_entries' = <<>>
    /\ pc' = "qa"
    /\ UNCHANGED <<fs, output, written, arg, ret>>

\* one stage: soup = load_soup(filename); if soup: all_entries.extend(entries),
\* entries being what the stage's extractor returns for soup
Stage(next, soup, entries) ==
    /\ IF soup.raised
       THEN pc' = "raised" /\ UNCHANGED all_entries
       ELSE /\ pc' = next
            /\ all_entries' = IF soup.value # <<>>
                              THEN Extend(all_entries, entries)
                              ELSE all_entries
    /\ UNCHANGED <<fs, output, run, written, arg, ret>>

Main_Qa ==
    /\ pc = "qa"
    /\ LET soup == LoadSoup(fs, "qa.html")
       IN  Stage("argumentit", soup, ParseQa(soup.value[1]))

Main_Argumentit ==
    /\ pc = "argumentit"
    /\ LET soup == LoadSoup(fs, "argumentit.html")
       IN  Stage("kielen-valta", soup,
                 ParseArgCards(soup.value[1], S_argumentit, S_arg, L_Systeemivirhe))

Main_KielenValta ==
    /\ pc = "kielen-valta"
    /\ LET soup == LoadSoup(fs, "kielen-valta.html")
       IN  Stage("kannustinketju", soup,
                 ParseArgCards(soup.value[1], S_kielen_valta, S_kieli, L_KielenValta))

Main_Kannustinketju ==
    /\ pc = "kannustinketju"
    /\ LET soup == LoadSoup(fs, "kannustinketju.html")
       IN  Stage("sanakirja", soup,
                 ParseEssay(soup.value[1], S_kannustinketju, S_kannustin,
                            L_Kannustinketju))

Main_Sanakirja ==
    /\ pc = "sanakirja"
    /\ LET soup == LoadSoup(fs, "sanakirja.html")
       IN  Stage("write", soup, ParseTerms(soup.value[1]))

\* a variant of Main_Write: nothing is written when there are no entries
Main_Write_SkipEmpty ==
    /\ pc = "write"
    /\ IF all_entries = <<>>
       THEN UNCHANGED <<output, written>>
       ELSE /\ output' = WriteText(output, Dumps(all_entries))
            /\ written' = Append(written, output')
    /\ pc' = "done"
    /\ UNCHANGED <<fs, all_entries, run, arg, ret>>

\* OUTPUT.write_text(json.dumps(all_entries, ...))
Main_Write ==
    /\ pc = "write"
    /\ output' = WriteText(output, Dumps(all_entries))
    /\ written' = Append(written, output')
    /\ pc' = "done"
    /\ UNCHANGED <<fs, all_entries, run, arg, ret>>

Next ==
    \/ Main_Begin
    \/ Main_Qa
    \/ Main_Argumentit
    \/ Main_KielenValta
    \/ Main_Kannustinketju
    \/ Main_Sanakirja
    \/ Main_Write

Spec == Init /\ [][Next]_vars

-----------------------------------------------------------------------------
(* Direct calls of the extractors *)

Call(name, soup, desc, page_url, type_id, type_label) ==
    [call |-> name, soup |-> soup, desc |-> desc, page_url |-> page_url,
     type_id |-> type_id, type_label |-> type_label]

ExtractCalls ==
    {Call("parse_qa", p, <<>>, <<>>, <<>>, <<>>) : p \in QaPages}
    \cup {Call("parse_arg_cards", p, <<>>, S_argumentit, S_arg, L_Systeemivirhe) :
            p \in ArgPages}
    \cup {Call("parse_arg_cards", p, <<>>, S_kielen_valta, S_kieli, L_KielenValta) :
            p \in ArgPages}
    \cup {Call("parse_essay", EssaySoup(d), <<d>>, S_kannustinketju, S_kannustin,
               L_Kannustinketju) : d \in EssayDescs}
    \cup {Call("parse_sisallys", TocSoup(d), d, <<>>, <<>>, <<>>) : d \in TocDescs}
    \cup {Call("parse_terms", p, <<>>, <<>>, <<>>, <<>>) : p \in TermPages}

InitCall(calls) ==
    /\ fs = [f \in Files |-> <<>>]
    /\ output = <<>>
    /\ pc = "call"
    /\ all_entries = <<>>
    /\ run = 0
    /\ written = <<>>
    /\ arg \in calls
    /\ ret = <<>>

Return(name, value) ==
    /\ pc = "call"
    /\ arg.call = name
    /\ ret' = value
    /\ pc' = "returned"
    /\ UNCHANGED <<fs, output, all_entries, run, written, arg>>

Call_ParseQa == Return("parse_qa", ParseQa(arg.soup))

Call_ParseArgCards ==
    Return("parse_arg_cards",
           ParseArgCards(arg.soup, arg.page_url, arg.type_id, arg.type_label))

Call_ParseEssay ==
    Return("parse_essay",
           ParseEssay(arg.soup, arg.page_url, arg.type_id, arg.type_label))

Call_ParseSisallys == Return("parse_sisallys", ParseSisallys(arg.soup))

Call_ParseTerms == Return("parse_terms", ParseTerms(arg.soup))

InitExtract == InitCall(ExtractCalls)

NextExtract ==
    \/ Call_ParseQa
    \/ Call_ParseArgCards
    \/ Call_ParseEssay
    \/ Call_ParseSisallys
    \/ Call_ParseTerms

SpecExtract == InitExtract /\ [][NextExtract]_vars

-----------------------------------------------------------------------------
(* Direct calls of truncate *)

TruncateCalls == {[call |-> "truncate", s |-> s] : s \in TruncInputs}

Call_Truncate == Return("truncate", Truncate(arg.s, DefaultMaxLen))

InitTruncate == InitCall(TruncateCalls)

NextTruncate == Call_Truncate

SpecTruncate == InitTruncate /\ [][NextTruncate]_vars

-----------------------------------------------------------------------------
(* Properties *)

\* the array the last completed run wrote, as the ids of its records
WrittenIds == LET file == written[Len(written)]
              IN  [i \in 1..Len(file) |-> file[i][3][2]]

\* the type tag of the stage that reads file f
TypeOf(f) ==
    CASE f = "qa.html" -> S_qa
      [] f = "argumentit.html" -> S_arg
      [] f = "kielen-valta.html" -> S_kieli
      [] f = "kannustinketju.html" -> S_kannustin
      [] OTHER -> S_termi

\* what the stage that reads file f extracts from page soup
ParseFile(f, soup) ==
    CASE f = "qa.html" -> ParseQa(soup)
      [] f = "argumentit.html" ->
            ParseArgCards(soup, S_argumentit, S_arg, L_Systeemivirhe)
      [] f = "kielen-valta.html" ->
            ParseArgCards(soup, S_kielen_valta, S_kieli, L_KielenValta)
      [] f = "kannustinketju.html" ->
            ParseEssay(soup, S_kannustinketju, S_kannustin, L_Kannustinketju)
      [] OTHER -> ParseTerms(soup)

\* the records of the page in file f, none if the file is missing
StageResult(f) == IF fs[f] = <<>> THEN <<>> ELSE ParseFile(f, fs[f][1])

\* the records in all_entries that come from the stage reading file f
Contribution(f) == SelectSeq(all_entries, LAMBDA e : e.type = TypeOf(f))

\* C1: in the array written by main() no two records have the same id,
\* across stages and within the records one stage takes from one page.
C1_UniqueIds ==
    pc = "done" =>
        \A i, j \in 1..Len(WrittenIds) : i # j => WrittenIds[i] # WrittenIds[j]

\* the excerpt e is what the claim allows for the content c
ExcerptOf(c, e) ==
    IF Len(c) <= DefaultMaxLen THEN e = c
    ELSE /\ Len(e) >= 1
         /\ Len(e) <= DefaultMaxLen + 1
         /\ e[Len(e)] = ELLIPSIS
         /\ SubSeq(e, 1, Len(e) - 1) = SubSeq(c, 1, Len(e) - 1)

\* C2: for every record an extractor returns, the excerpt is the content
\* itself if the content has at most 300 characters, and otherwise a prefix
\* of the content followed by one ellipsis, at most 301 characters in all.
C2_ExcerptBounded ==
    pc = "returned" =>
        \A i \in 1..Len(ret) : ExcerptOf(ret[i].content, ret[i].excerpt)

C2_Witness ==
    /\ pc = "returned"
    /\ \E i \in 1..Len(ret) :
          /\ Len(ret[i].content) > DefaultMaxLen
          /\ Len(ret[i].excerpt) = DefaultMaxLen + 1

\* s has no leading, no trailing and no two consecutive whitespace characters
Normalized(s) ==
    /\ s # <<>> => ~IsSpace(s[1]) /\ ~IsSpace(s[Len(s)])
    /\ \A i \in 1..(Len(s) - 1) : ~(IsSpace(s[i]) /\ IsSpace(s[i + 1]))

\* C3: the content of every record returned by any of the extractors (Q&A,
\* argument cards, essay sections, table of contents, glossary terms) has no
\* two consecutive whitespace characters and no leading or trailing one.
C3_ContentNormalized ==
    pc = "returned" => \A i \in 1..Len(ret) : Normalized(ret[i].content)

\* C4: whichever input pages are missing, main() never raises; when it has
\* run through, a stage whose page is missing has contributed no record and
\* every other stage has contributed the records of its own page, whatever
\* the other pages are.
C4_MissingPagesSkipped ==
    /\ pc # "raised"
    /\ pc = "done" =>
          \A f \in Files :
             Contribution(f) = StageResult(f)

C4_Witness ==
    /\ pc = "done"
    /\ fs["argumentit.html"] = <<>>
    /\ fs["kannustinketju.html"] = <<>>
    /\ fs["qa.html"] # <<>>
    /\ fs["sanakirja.html"] # <<>>
    /\ Len(all_entries) >= 2

\* C5: the written array is the concatenation of the stage results in the
\* order Q&A, argumentit, kielen-valta, kannustinketju, sanakirja, each in
\* the document order of its page: nothing dropped, doubled or moved.
C5_StageOrder ==
    pc = "done" =>
        output = Dumps(Concat(<<StageResult("qa.html"),
                                StageResult("argumentit.html"),
                                StageResult("kielen-valta.html"),
                                StageResult("kannustinketju.html"),
                                StageResult("sanakirja.html")>>))

C5_Witness ==
    /\ pc = "done"
    /\ \A f \in Files : Len(StageResult(f)) >= 1
    /\ Len(output) >= 8

\* C6: every run of the pipeline on the same input files writes the same
\* file, whatever the output file held before the run.
C6_Idempotent ==
    /\ \A i, j \in 1..Len(written) : written[i] = written[j]
    /\ pc = "done" => output = written[Len(written)]

C6_Witness ==
    /\ pc = "done"
    /\ run = 2
    /\ Len(written) = 2
    /\ written[2] # <<>>

\* C7: each run writes the output file exactly once, after the five stages
\* have run or been skipped; no stage touches the file; and the write
\* happens, with an empty array, also when every stage was skipped.
C7_WrittenOnceAtEnd ==
    /\ [](Len(written) = IF pc = "done" THEN run ELSE IF run = 0 THEN 0 ELSE run - 1)
    /\ []((pc = "done" /\ \A f \in Files : fs[f] = <<>>) => output = <<>>)
    /\ [][(output' # output \/ written' # written) => (pc = "write" /\ pc' = "done")]_vars

C7_Witness ==
    /\ pc = "done"
    /\ \A f \in Files : fs[f] = <<>>
    /\ Len(written) = 1
    /\ output = <<>>

\* C8: for a string longer than 300 characters truncate returns its first
\* 300 characters cut back to just before the last space among them, plus
\* one ellipsis; with no space among them, all 300 plus the ellipsis.
C8_TruncateCut ==
    (pc = "returned" /\ Len(arg.s) > DefaultMaxLen) =>
        LET first == SubSeq(arg.s, 1, DefaultMaxLen)
            kept == SubSeq(ret, 1, Len(ret) - 1)
        IN  /\ Len(ret) >= 1
            /\ ret[Len(ret)] = ELLIPSIS
            /\ IF \A i \in 1..DefaultMaxLen : first[i] # SPACE
               THEN kept = first
               ELSE /\ Len(kept) < DefaultMaxLen
                    /\ kept = SubSeq(first, 1, Len(kept))
                    /\ first[Len(kept) + 1] = SPACE
                    /\ \A i \in (Len(kept) + 2)..DefaultMaxLen : first[i] # SPACE

C8_Witness ==
    /\ pc = "returned"
    /\ Len(arg.s) = DefaultMaxLen + 1
    /\ \A i \in 1..Len(arg.s) : arg.s[i] # SPACE
    /\ Len(ret) = DefaultMaxLen + 1

\* the title the claim gives section k (from 1) of description d
SectionTitle(d, k) ==
    IF d.h2 # <<>> /\ d.h2[1] # <<>> THEN d.h2[1]
    ELSE IF d.h3 # <<>> /\ d.h3[1] # <<>> THEN d.h3[1]
    ELSE S_Osio \o Str(k)

\* C9: parse_essay returns nothing without the essay body; one record, id
\* type_id + "-full", url the page path, title the h1 text if there is an h1
\* and the type label otherwise, for a body without sections; and otherwise
\* one record per section in document order, the k-th (from 0) with id
\* type_id + "-s" + k and title the h2 text, else the h3 text, else
\* "Osio k+1".
C9_EssayRecords ==
    (pc = "returned" /\ arg.call = "parse_essay") =>
        LET d == arg.desc[1]
        IN  IF ~d.body THEN ret = <<>>
            ELSE IF d.sections = <<>>
            THEN /\ Len(ret) = 1
                 /\ ret[1].id = arg.type_id \o S_full
                 /\ ret[1].url = arg.page_url
                 /\ ret[1].title = IF d.h1 # <<>> THEN d.h1[1] ELSE arg.type_label
            ELSE /\ Len(ret) = Len(d.sections)
                 /\ \A k \in 1..Len(ret) :
                       /\ ret[k].id = arg.type_id \o <<"-", "s">> \o Str(k - 1)
                       /\ ret[k].title = SectionTitle(d.sections[k], k)

C9_Witness ==
    /\ pc = "returned"
    /\ arg.call = "parse_essay"
    /\ Len(ret) = 2
    /\ ret[1].title = T_Sub
    /\ ret[2].title = S_Osio \o <<"2">>

\* the chapters of a table of contents that have a title element
Titled(desc) == SelectSeq(desc, LAMBDA d : d.titled)

\* C10, as claimed: the id of every table-of-contents record is "toc-"
\* followed by the record's url field.
C10_IdIsTocUrlField ==
    (pc = "returned" /\ arg.call = "parse_sisallys") =>
        \A i \in 1..Len(ret) : ret[i].id = S_toc \o <<"-">> \o ret[i].url

\* C10, amended: there is one record per chapter with a title element; its
\* url field is the link target if there is a link and the target starts
\* with "http", and "sisallys" otherwise; its id is "toc-" followed by the
\* link target whenever there is a link, external or not, and "toc-sisallys"
\* when there is none.
C10_IdFromLinkTarget ==
    (pc = "returned" /\ arg.call = "parse_sisallys") =>
        LET chapters == Titled(arg.desc)
        IN  /\ Len(ret) = Len(chapters)
            /\ \A k \in 1..Len(ret) :
                  LET href == chapters[k].href
                  IN  /\ ret[k].id = S_toc \o <<"-">> \o
                                     (IF href # <<>> THEN href[1] ELSE S_sisallys)
                      /\ ret[k].url = IF href # <<>> /\ StartsWith(href[1], S_http)
                                      THEN href[1] ELSE S_sisallys

C10_Witness ==
    /\ pc = "returned"
    /\ arg.call = "parse_sisallys"
    /\ \E i \in 1..Len(ret) :
          /\ ret[i].id = S_toc \o <<"-">> \o T_luku1
          /\ ret[i].url = S_sisallys

=============================================================================
